---- MODULE Spec2Model ----
(***************************************************************************)
(* Lifecycle model of the uv binding: uv/handle.py (Handle, uv_close_cb,   *)
(* close_all_handles), uv/handles/fs_event.py (FSEvent) and uv/request.py  *)
(* (UVRequest).  The native library, the attachment registry               *)
(* (library.attach / library.detach) and the loop (uv/loop.py) are not     *)
(* part of the sources at hand; they are modelled from the design          *)
(* document and marked so where they are defined.                          *)
(***************************************************************************)
EXTENDS Integers, Sequences, FiniteSets, TLC

\* ---- bounds ----------------------------------------------------------
NumHandles == 2
OpHandles == 1
MaxCloseCalls == 2
NumRequests == 3
\* longest byte string and longest list of byte strings given to Buffers
MaxLen == 2
MaxBufs == 2

\* handle slots, and the ones user code operates on in the per-handle
\* specifications (handles interact only through `handles` and the registry)
Handles == 1..NumHandles
OpSet == 1..OpHandles
Requests == 1..NumRequests

\* ---- values ----------------------------------------------------------
\* Python None, as an argument or a field value.
None == "None"
\* library.dummy_callback: the initial on_closed of every handle.
dummy_callback == "dummy_callback"
\* user callbacks that close() may be given
Callbacks == {"cbA", "cbB"}
\* native status codes: negative is an error, zero success
Codes == {-1, 0}
\* codes a native cancel may return: cancel() compares with SUCCESS
CancelCodes == {-1, 0, 1}
\* paths a watcher is given; the empty string is a path value too
Paths == {"p", "q"}
PathArgs == {None, ""} \cup Paths
\* monitoring flags; an optional argument is <<>> (not given) or <<v>>
Flags == {0, 1}
FlagArgs == {<<>>} \cup {<<f>> : f \in Flags}
EventCallbacks == {"evA", "evB"}
\* C strings produced by library.str_py2c
NULL == "NULL"
\* byte values, byte strings, and what Buffers accepts: a bare bytes value
\* or a list of byte strings
Bytes == {0, 1}
ByteStrings == UNION {[1..n -> Bytes] : n \in 0..MaxLen}
BufferInputs ==
    {[kind |-> "bytes", value |-> b] : b \in ByteStrings} \cup
    {[kind |-> "list", value |-> l] :
         l \in UNION {[1..n -> ByteStrings] : n \in 0..MaxBufs}}
\* version strings of the binding, the cffi base module and the C library
Versions == {"0.0.4", "0.0.5", "0.1.0"}
\* uv_version(): 1.8.0 and 1.9.1
VersionHexes == {67584, 67841}
\* what library.str_py2c does with None: it returns the null pointer or it
\* raises
NoneConversions == {"null", "raise"}
\* terminal modes (TTYMode) and the window sizes the native library reports
TTYModes == {"NORMAL", "RAW", "IO"}
WinSizes == {<<80, 24>>, <<132, 43>>}
\* status codes of the tty calls; only 0 is StatusCodes.SUCCESS
StatusCodes == {-1, 0, 1}
\* file names the native library reports with an event
Filenames == {NULL, "c:p"}

VARIABLES
    \* uv/loop.py
    loop_closed,     \* Loop.closed
    \* uv/handle.py, uv/handles/fs_event.py: fields of each handle object
    born,            \* outcome of the constructor call for this slot
    uv_handle,       \* Handle.uv_handle: "unset", "ptr" or None
    on_closed,       \* Handle.on_closed
    destroyed,       \* Handle.destroyed
    fs,              \* FSEvent.path / flags / on_event
    handles,         \* module-level set `handles`
    attachments,     \* attachment registry: native blocks with an owner
    \* native library state of each handle's block
    uv_closing,      \* uv_is_closing
    uv_ref,          \* uv_has_ref
    uv_active,       \* uv_is_active
    close_queue,     \* close trampolines the native loop still has to call
    uv_tty_mode,     \* native: the terminal mode of a tty block
    close_all,       \* the close_all_handles() calls made and what they met
    loop_exceptions, \* errors of user callbacks the loop has been handed
    \* observation of the run
    n_close,         \* close() calls made before the close completed
    last_arg,        \* the argument of the most recent of them
    last_cb,         \* the most recent callback one of them supplied
    invoked,         \* callbacks uv_close_cb has invoked as on_closed
    destroys,        \* how many times destroy ran to its end
    cb_view,         \* what on_closed saw of its handle when it was invoked
    steps,           \* bookkeeping steps in the order they were executed
    lastOp,          \* the operation performed by the last step
    \* uv/request.py
    req_born,        \* outcome of the request constructor for this slot
    finished,        \* UVRequest.finished
    base_request,    \* whether base.BaseRequest was built
    pending,         \* the loop's pending set
    uv_req_active,   \* requests the native library still has to complete
    uv_req_canceled, \* requests the native library accepted a cancel for
    removals,        \* how often a request left the pending set
    mod_in,          \* environment and versions uv/library.py was loaded with
    mod_out,         \* how the load ended and the names the module exposes
    buf_in,          \* argument of the last Buffers(...) call
    buf_obj,         \* the Buffers object: pinned copies and descriptors
    buf_got          \* result of the last uv_buffer_get on a descriptor

hvars == <<born, uv_handle, on_closed, destroyed, fs, handles, attachments,
           uv_closing, uv_ref, uv_active, close_queue, loop_exceptions,
           uv_tty_mode, close_all,
           n_close, last_arg, last_cb, invoked, destroys, cb_view, steps>>
\* uv/library.py: the module's load and the Buffers object built last
libvars == <<mod_in, mod_out, buf_in, buf_obj, buf_got>>
rvars == <<req_born, finished, base_request, pending, uv_req_active,
           uv_req_canceled, removals>>
vars == <<loop_closed, hvars, rvars, libvars, lastOp>>

NoView == [seen |-> FALSE, attached |-> FALSE, destroyed |-> FALSE,
           uv_null |-> FALSE, in_handles |-> FALSE]
NoCloseAll == [called |-> FALSE, targets |-> {}, closing |-> {}]
NoFs == [path |-> None, flags |-> 0, on_event |-> None]

\* ---- the program state as one value, for sequential composition ------
\* exc: the exception the running operation has raised ("none": none);
\* ret: the value it returned; ncalls: the lib.uv_* functions it called;
\* nullref: whether one of them was handed a uv_handle that is None;
\* cb_raised: whether a user callback it invoked raised; native_path: the
\* path it handed to the native library.
State ==
    [loop_closed |-> loop_closed, uv_handle |-> uv_handle,
     on_closed |-> on_closed, destroyed |-> destroyed, fs |-> fs,
     handles |-> handles, attachments |-> attachments,
     uv_closing |-> uv_closing, uv_ref |-> uv_ref, uv_active |-> uv_active,
     close_queue |-> close_queue, loop_exceptions |-> loop_exceptions,
     uv_tty_mode |-> uv_tty_mode,
     invoked |-> invoked, destroys |-> destroys,
     cb_view |-> cb_view, steps |-> steps,
     finished |-> finished, base_request |-> base_request,
     pending |-> pending, uv_req_active |-> uv_req_active,
     uv_req_canceled |-> uv_req_canceled, removals |-> removals,
     exc |-> "none", ret |-> None, ncalls |-> {}, nullref |-> FALSE,
     cb_raised |-> FALSE, native_path |-> None, native_flags |-> 0]

CommitHandles(s) ==
    /\ uv_handle' = s.uv_handle
    /\ on_closed' = s.on_closed
    /\ destroyed' = s.destroyed
    /\ fs' = s.fs
    /\ handles' = s.handles
    /\ attachments' = s.attachments
    /\ uv_closing' = s.uv_closing
    /\ uv_ref' = s.uv_ref
    /\ uv_active' = s.uv_active
    /\ close_queue' = s.close_queue
    /\ uv_tty_mode' = s.uv_tty_mode
    /\ loop_exceptions' = s.loop_exceptions
    /\ invoked' = s.invoked
    /\ destroys' = s.destroys
    /\ cb_view' = s.cb_view
    /\ steps' = s.steps

CommitRequests(s) ==
    /\ finished' = s.finished
    /\ base_request' = s.base_request
    /\ pending' = s.pending
    /\ uv_req_active' = s.uv_req_active
    /\ uv_req_canceled' = s.uv_req_canceled
    /\ removals' = s.removals

Raise(s, e) == [s EXCEPT !.exc = e]
Return(s, v) == [s EXCEPT !.ret = v]
Bool(b) == IF b THEN "True" ELSE "False"

\* ---- native library boundary (design document, section 6) -------------
\* Every lib.uv_* call on a handle goes through here.  cffi rejects None
\* where a pointer is expected, so a call with a nulled uv_handle raises
\* TypeError before the native function runs.
lib_call(s, h, fn) ==
    LET s1 == [s EXCEPT !.ncalls = @ \cup {fn},
                        !.nullref = @ \/ (s.uv_handle[h] = None)]
    IN  IF s.uv_handle[h] = None THEN Raise(s1, "TypeError") ELSE s1

\* close(native_block, close_trampoline): the block is closing from now on
\* and the trampoline is queued once for this call.
lib_uv_close(s, h) ==
    LET s1 == lib_call(s, h, "uv_close")
    IN  IF s1.exc # "none" THEN s1
        ELSE [s1 EXCEPT !.uv_closing[h] = TRUE, !.uv_active[h] = FALSE,
                        !.close_queue[h] = @ + 1]

lib_uv_ref(s, h) ==
    LET s1 == lib_call(s, h, "uv_ref")
    IN  IF s1.exc # "none" THEN s1 ELSE [s1 EXCEPT !.uv_ref[h] = TRUE]

lib_uv_unref(s, h) ==
    LET s1 == lib_call(s, h, "uv_unref")
    IN  IF s1.exc # "none" THEN s1 ELSE [s1 EXCEPT !.uv_ref[h] = FALSE]

\* init(loop_ref, native_block) -> status: a freshly initialised block is
\* referenced, inactive and not closing; a failed init leaves it untouched.
lib_uv_fs_event_init(s, h, code) ==
    LET s1 == [s EXCEPT !.ncalls = @ \cup {"uv_fs_event_init"}]
    IN  IF code < 0 THEN s1
        ELSE [s1 EXCEPT !.uv_ref[h] = TRUE, !.uv_active[h] = FALSE,
                        !.uv_closing[h] = FALSE]

\* uv_fs_event_start(handle, cb, path, flags) -> status: fails with
\* UV_EINVAL on a watcher that is already active and with the error of the
\* backend (EFAULT for a null path, `code` otherwise); on success the
\* watcher is active and the path it was given is the one watched.
lib_uv_fs_event_start(s, h, c_path, flags, code) ==
    LET s1 == [lib_call(s, h, "uv_fs_event_start") EXCEPT
                   !.native_path = c_path, !.native_flags = flags]
    IN  IF s1.exc # "none" THEN s1
        ELSE IF s.uv_active[h] \/ c_path = NULL \/ code < 0
             THEN Return(s1, -1)
             ELSE Return([s1 EXCEPT !.uv_active[h] = TRUE], 0)

\* uv_fs_event_stop(handle) -> status: the watcher is inactive afterwards
lib_uv_fs_event_stop(s, h, code) ==
    LET s1 == lib_call(s, h, "uv_fs_event_stop")
    IN  IF s1.exc # "none" THEN s1
        ELSE IF code < 0 THEN Return(s1, code)
        ELSE Return([s1 EXCEPT !.uv_active[h] = FALSE], 0)

\* library.str_py2c: a unicode string becomes its encoded C string; None
\* becomes the null pointer
str_py2c(p) ==
    CASE p = None -> NULL
      [] p = ""   -> "c:"
      [] p = "p"  -> "c:p"
      [] p = "q"  -> "c:q"

\* library.str_c2py: the decoded C string; the null pointer becomes None
str_c2py(c) ==
    CASE c = NULL  -> None
      [] c = "c:"  -> ""
      [] c = "c:p" -> "p"
      [] c = "c:q" -> "q"

\* ---- attachment registry (design document, section 4.1) ---------------
attach(s, h) ==
    IF h \in s.attachments THEN Raise(s, "DuplicateAttachment")
    ELSE [s EXCEPT !.attachments = @ \cup {h}]

detach(s, h) ==
    IF h \notin s.attachments THEN Raise(s, "NotAttached")
    ELSE [s EXCEPT !.attachments = @ \ {h}, !.steps[h] = Append(@, "detach")]

\* ---- loop (design document, section 4.5) ------------------------------
\* close() fails with StillActive while a live handle is both referenced
\* and active.
Loop_close(s) ==
    IF \E h \in s.handles : s.uv_active[h] /\ s.uv_ref[h]
    THEN Raise(s, "StillActive")
    ELSE [s EXCEPT !.loop_closed = TRUE]

\* Loop.handle_exception: the loop's error surface receives the error
Loop_handle_exception(s) ==
    [s EXCEPT !.exc = "none", !.loop_exceptions = @ + 1]

\* Loop.callback_context, leaving the guarded block: an error raised inside
\* is captured and handed to the loop instead of propagating.
callback_context(s) ==
    IF s.exc # "none" THEN Loop_handle_exception(s) ELSE s

\* handle.on_closed(handle): the user callback runs and may raise.  What
\* the callback sees of its handle is recorded.
on_closed_call(s, h, raises) ==
    LET s1 == [s EXCEPT !.invoked[h] = Append(@, s.on_closed[h]),
                        !.steps[h] = Append(@, "on_closed"),
                        !.cb_raised = raises,
                        !.cb_view[h] = [seen |-> TRUE,
                                        attached |-> h \in s.attachments,
                                        destroyed |-> s.destroyed[h],
                                        uv_null |-> s.uv_handle[h] = None,
                                        in_handles |-> h \in s.handles]]
    IN  IF raises THEN Raise(s1, "CallbackError") ELSE s1

\* with handle.loop.callback_context: handle.on_closed(handle)
callback_context_on_closed(s, h, raises) ==
    callback_context(on_closed_call(s, h, raises))

\* ---- uv/handle.py ------------------------------------------------------
\* Handle.__init__
Handle_init(s, h) ==
    LET s1 == attach([s EXCEPT !.uv_handle[h] = "ptr"], h)
        s2 == [s1 EXCEPT !.on_closed[h] = dummy_callback]
    IN  IF s1.exc # "none" THEN s1
        ELSE IF s2.loop_closed THEN Raise(s2, "ClosedStructure")
        ELSE [s2 EXCEPT !.destroyed[h] = FALSE, !.handles = @ \cup {h}]

\* variant of Handle.destroy that leaves the handle in `handles`
Handle_destroy_keeps_member(s, h) ==
    [s EXCEPT !.uv_handle[h] = None, !.destroyed[h] = TRUE,
              !.destroys[h] = @ + 1]

\* Handle.destroy
Handle_destroy(s, h) ==
    LET s1 == [s EXCEPT !.uv_handle[h] = None,
                        !.steps[h] = Append(@, "uv_handle=None")]
    IN  IF h \notin s1.handles THEN Raise(s1, "KeyError")
        ELSE [s1 EXCEPT !.handles = @ \ {h},
                        !.destroyed[h] = TRUE,
                        !.destroys[h] = @ + 1,
                        !.steps[h] = Append(Append(@, "handles.remove"),
                                            "destroyed=True")]

\* variant of uv_close_cb that returns without calling handle.destroy()
uv_close_cb_no_destroy(s, h, raises) ==
    LET s1 == detach(s, h)
    IN  IF s1.exc # "none" THEN s1
        ELSE callback_context_on_closed(s1, h, raises)

\* variant of uv_close_cb that invokes on_closed outside the callback
\* context: an error of the callback leaves the trampoline before destroy
uv_close_cb_unguarded(s, h, raises) ==
    LET s1 == detach(s, h)
        s2 == on_closed_call(s1, h, raises)
    IN  IF s1.exc # "none" THEN s1
        ELSE IF s2.exc # "none" THEN s2
        ELSE Handle_destroy(s2, h)

\* uv_close_cb, the close trampoline; raises: whether on_closed raises
uv_close_cb(s, h, raises) ==
    LET s1 == detach(s, h)
    IN  IF s1.exc # "none" THEN s1
        ELSE Handle_destroy(callback_context_on_closed(s1, h, raises), h)

\* Handle.active
Handle_active(s, h) ==
    IF s.destroyed[h] THEN Return(s, "False")
    ELSE LET s1 == lib_call(s, h, "uv_is_active")
         IN  IF s1.exc # "none" THEN s1 ELSE Return(s1, Bool(s1.uv_active[h]))

\* variant of Handle.closed that asks the native library only
Handle_closed_native_only(s, h) ==
    LET s1 == lib_call(s, h, "uv_is_closing")
    IN  IF s1.exc # "none" THEN s1 ELSE Return(s1, Bool(s1.uv_closing[h]))

\* Handle.closed
Handle_closed(s, h) ==
    IF s.destroyed[h] THEN Return(s, "True")
    ELSE LET s1 == lib_call(s, h, "uv_is_closing")
         IN  IF s1.exc # "none" THEN s1 ELSE Return(s1, Bool(s1.uv_closing[h]))

\* Handle.referenced
Handle_referenced(s, h) ==
    IF s.destroyed[h] THEN Return(s, "False")
    ELSE LET s1 == lib_call(s, h, "uv_has_ref")
         IN  IF s1.exc # "none" THEN s1 ELSE Return(s1, Bool(s1.uv_ref[h]))

\* Handle.send_buffer_size (getter): no destroyed check before the call
Handle_send_buffer_size_get(s, h, code) ==
    LET s1 == lib_call(s, h, "uv_send_buffer_size")
    IN  IF s1.exc # "none" THEN s1
        ELSE IF code < 0 THEN Raise(s1, "UVError") ELSE Return(s1, "int")

\* Handle.send_buffer_size (setter): no destroyed check before the call
Handle_send_buffer_size_set(s, h, code) ==
    LET s1 == lib_call(s, h, "uv_send_buffer_size")
    IN  IF s1.exc # "none" THEN s1
        ELSE IF code < 0 THEN Raise(s1, "UVError") ELSE s1

\* Handle.receive_buffer_size (getter): no destroyed check before the call
Handle_receive_buffer_size_get(s, h, code) ==
    LET s1 == lib_call(s, h, "uv_recv_buffer_size")
    IN  IF s1.exc # "none" THEN s1
        ELSE IF code < 0 THEN Raise(s1, "UVError") ELSE Return(s1, "int")

\* Handle.receive_buffer_size (setter)
Handle_receive_buffer_size_set(s, h, code) ==
    IF s.destroyed[h] THEN Raise(s, "ClosedStructure")
    ELSE LET s1 == lib_call(s, h, "uv_recv_buffer_size")
         IN  IF s1.exc # "none" THEN s1
             ELSE IF code < 0 THEN Raise(s1, "UVError") ELSE s1

\* Handle.fileno
Handle_fileno(s, h, code) ==
    IF s.destroyed[h] THEN Raise(s, "ClosedStructure")
    ELSE LET s1 == lib_call(s, h, "uv_fileno")
         IN  IF s1.exc # "none" THEN s1
             ELSE IF code < 0 THEN Raise(s1, "UVError") ELSE Return(s1, "int")

\* Handle.reference
Handle_reference(s, h) ==
    IF s.destroyed[h] THEN Raise(s, "ClosedStructure") ELSE lib_uv_ref(s, h)

\* variant of Handle.dereference without the destroyed check
Handle_dereference_unguarded(s, h) == lib_uv_unref(s, h)

\* Handle.dereference
Handle_dereference(s, h) ==
    IF s.destroyed[h] THEN Raise(s, "ClosedStructure") ELSE lib_uv_unref(s, h)

\* variant of Handle.close that destroys the handle itself
Handle_close_sync_destroy(s, h, cb) ==
    IF s.destroyed[h] THEN s
    ELSE Handle_destroy(
             lib_uv_close([s EXCEPT !.on_closed[h] = IF cb = None THEN @ ELSE cb],
                          h), h)

\* variant of Handle.close with the operands of `or` swapped: a callback
\* that is already stored is kept
Handle_close_first_wins(s, h, cb) ==
    IF s.destroyed[h] THEN s
    ELSE lib_uv_close([s EXCEPT !.on_closed[h] =
                           IF @ # dummy_callback \/ cb = None THEN @ ELSE cb], h)

\* variant of Handle.close without the destroyed check
Handle_close_unguarded(s, h, cb) ==
    lib_uv_close([s EXCEPT !.on_closed[h] = IF cb = None THEN @ ELSE cb], h)

\* Handle.close: `on_closed or self.on_closed` keeps the stored callback
\* when the argument is None.
Handle_close(s, h, cb) ==
    IF s.destroyed[h] THEN s
    ELSE lib_uv_close([s EXCEPT !.on_closed[h] = IF cb = None THEN @ ELSE cb], h)

\* ---- uv/handles/fs_event.py -------------------------------------------
\* FSEvent.__init__: `on_event or common.dummy_callback`
FSEvent_init(s, h, path, flags, on_event, code) ==
    LET s1 == Handle_init(s, h)
        s2 == [s1 EXCEPT !.fs[h] = [path |-> path, flags |-> flags,
                   on_event |-> IF on_event = None THEN dummy_callback
                                ELSE on_event]]
        s3 == lib_uv_fs_event_init(s2, h, code)
    IN  IF s1.exc # "none" THEN s1
        ELSE IF code < 0
             THEN LET s4 == Handle_destroy(s3, h)
                  IN  IF s4.exc # "none" THEN s4 ELSE Raise(s4, "UVError")
             ELSE s3

\* close_all_handles(callback): `for handle in handles:
\* handle.close(callback)`; todo is the part of the set not yet visited.  An
\* exception of a close leaves the loop.
RECURSIVE close_all_handles(_, _, _)
close_all_handles(s, todo, callback) ==
    IF todo = {} THEN s
    ELSE LET handle == CHOOSE h \in todo : TRUE
             s1 == Handle_close(s, handle, callback)
         IN  IF s1.exc # "none" THEN s1
             ELSE close_all_handles(s1, todo \ {handle}, callback)

\* Handle.closing: the handle has been closed or is closing
Handle_closing(s, h) == s.destroyed[h] \/ s.uv_closing[h]

\* Python's `x or y` on the values start() is given: None, the empty
\* string and 0 are false
Falsy(x) == x \in {None, ""}
FalsyFlags(f) == f = <<>> \/ f[1] = 0

\* variant of FSEvent.start without the closing check
FSEvent_start_unchecked(s, h, path, flags, on_event, code, conv) ==
    LET s1 == [s EXCEPT
                 !.fs[h].path = IF Falsy(path) THEN @ ELSE path,
                 !.fs[h].flags = IF FalsyFlags(flags) THEN @ ELSE flags[1],
                 !.fs[h].on_event = IF Falsy(on_event) THEN @ ELSE on_event]
        s2 == lib_uv_fs_event_start(s1, h, str_py2c(path), s1.fs[h].flags,
                                    code)
    IN  IF path = None /\ conv = "raise" THEN Raise(s1, "TypeError")
        ELSE IF s2.exc # "none" THEN s2
        ELSE IF s2.ret < 0 THEN Raise(s2, "UVError")
        ELSE Return(s2, None)

\* FSEvent.start(path, flags, on_event); code: the status the native start
\* returns, conv: what str_py2c does with None
FSEvent_start(s, h, path, flags, on_event, code, conv) ==
    LET s1 == [s EXCEPT
                 !.fs[h].path = IF Falsy(path) THEN @ ELSE path,
                 !.fs[h].flags = IF FalsyFlags(flags) THEN @ ELSE flags[1],
                 !.fs[h].on_event = IF Falsy(on_event) THEN @ ELSE on_event]
        s2 == lib_uv_fs_event_start(s1, h, str_py2c(path), s1.fs[h].flags,
                                    code)
    IN  IF Handle_closing(s, h) THEN Raise(s, "HandleClosedError")
        ELSE IF path = None /\ conv = "raise" THEN Raise(s1, "TypeError")
        ELSE IF s2.exc # "none" THEN s2
        ELSE IF s2.ret < 0 THEN Raise(s2, "UVError")
        ELSE Return(s2, None)

\* FSEvent.stop()
FSEvent_stop(s, h, code) ==
    LET s1 == lib_uv_fs_event_stop(s, h, code)
    IN  IF Handle_closing(s, h) THEN s
        ELSE IF s1.exc # "none" THEN s1
        ELSE IF s1.ret < 0 THEN Raise(s1, "UVError")
        ELSE Return(s1, None)

\* fs_monitor.on_event(fs_monitor, status, filename, events): the user
\* callback runs and may raise
on_event_call(s, h, filename, raises) ==
    LET s1 == [s EXCEPT !.cb_raised = raises, !.ret = filename]
    IN  IF raises THEN Raise(s1, "CallbackError") ELSE s1

\* variant of uv_fs_event_cb that calls on_event without the try block
uv_fs_event_cb_no_try(s, h, c_filename, raises) ==
    LET s1 == detach(s, h)
    IN  IF s1.exc # "none" THEN s1
        ELSE on_event_call(s1, h, str_c2py(c_filename), raises)

\* uv_fs_event_cb, the event trampoline
uv_fs_event_cb(s, h, c_filename, raises) ==
    LET s1 == detach(s, h)
        s2 == on_event_call(s1, h, str_c2py(c_filename), raises)
    IN  IF s1.exc # "none" THEN s1
        ELSE IF s2.exc # "none" THEN Loop_handle_exception(s2)
        ELSE s2

\* ---- uv/library.py ------------------------------------------------------
NoLoad == [loaded |-> FALSE, mock |-> FALSE, trace |-> FALSE,
           version |-> "0.0.4", uvcffi_version |-> "0.0.4",
           c_library_version |-> "0.0.4", version_hex |-> 0]
NoModule == [exc |-> "none", message |-> None, exposed |-> {},
             version |-> <<0, 0, 0>>]
NoInput == [kind |-> "none", value |-> <<>>]
NoBuffers == [c_buffers |-> <<>>, uv_buffers |-> <<>>]
NoGet == [index |-> 0, base |-> 0, length |-> 0]

\* names the module defines after its version checks
LibraryNames == {"ffi", "lib", "Version", "version", "uv_buffer_set",
                 "UVBuffer", "uv_buffer_get", "Buffers"}

\* variant of the module body without the check of the C library's version
library_load_no_c_check(in) ==
    LET uvcffi_version == IF in.mock THEN in.version ELSE in.uvcffi_version
    IN  IF uvcffi_version # in.version
        THEN [NoModule EXCEPT !.exc = "RuntimeError",
                              !.message = "incompatible cffi base library"]
        ELSE [NoModule EXCEPT
                  !.exposed = LibraryNames,
                  !.version = <<(in.version_hex \div 65536) % 256,
                                (in.version_hex \div 256) % 256,
                                in.version_hex % 256>>]

\* the module body of uv/library.py: with PYTHON_MOCK_LIBUV the cffi module
\* is a mock carrying the binding's own version; otherwise uvcffi is
\* imported and the C library's version is read from it
library_load(in) ==
    LET uvcffi_version == IF in.mock THEN in.version ELSE in.uvcffi_version
        c_library_version == IF in.mock THEN in.version
                             ELSE in.c_library_version
    IN  IF uvcffi_version # in.version
        THEN [NoModule EXCEPT !.exc = "RuntimeError",
                              !.message = "incompatible cffi base library"]
        ELSE IF c_library_version # in.version
        THEN [NoModule EXCEPT !.exc = "RuntimeError",
                              !.message = "incompatible cffi c library"]
        ELSE [NoModule EXCEPT
                  !.exposed = LibraryNames,
                  !.version = <<(in.version_hex \div 65536) % 256,
                                (in.version_hex \div 256) % 256,
                                in.version_hex % 256>>]

\* ffi.new('char[]', buf): a fresh array at address addr holding the bytes
\* of buf and a terminating zero
ffi_new_char_array(addr, buf) == [addr |-> addr, data |-> Append(buf, 0)]

\* ffi.new('uv_buf_t[]', n): n zero-initialised descriptors
ffi_new_uv_buf_array(n) == [i \in 1..n |-> [base |-> 0, len |-> 0]]

\* py_uv_buf_set(buffer, base, length) of the C helper library
py_uv_buf_set(uv_buffer, c_base, length) == [base |-> c_base, len |-> length]

\* py_uv_buf_get(buffer, length_pointer): returns base, stores the length
py_uv_buf_get(uv_buffer) == <<uv_buffer.base, uv_buffer.len>>

\* library.uv_buffer_set
uv_buffer_set(uv_buffer, c_base, length) ==
    py_uv_buf_set(uv_buffer, c_base, length)

\* library.uv_buffer_get
uv_buffer_get(uv_buffer) ==
    [base |-> py_uv_buf_get(uv_buffer)[1],
     length |-> py_uv_buf_get(uv_buffer)[2]]

\* variant of Buffers.__new__ that stores the length of the pinned array,
\* terminating zero included
Buffers_array_length(input) ==
    LET buffers == IF input.kind = "bytes" THEN <<input.value>>
                   ELSE input.value
        c_buffers == [i \in 1..Len(buffers) |->
                          ffi_new_char_array(i, buffers[i])]
        uv_buffers == ffi_new_uv_buf_array(Len(buffers))
    IN  [c_buffers |-> c_buffers,
         uv_buffers |-> [i \in 1..Len(buffers) |->
                            uv_buffer_set(uv_buffers[i], c_buffers[i].addr,
                                          Len(c_buffers[i].data))]]

\* Buffers.__new__: a bare bytes value is wrapped into a list; every buffer
\* is copied into a pinned char array (addresses 1, 2, ... in order of
\* allocation) and descriptor i is set to that array and len(buf)
Buffers(input) ==
    LET buffers == IF input.kind = "bytes" THEN <<input.value>>
                   ELSE input.value
        c_buffers == [i \in 1..Len(buffers) |->
                          ffi_new_char_array(i, buffers[i])]
        uv_buffers == ffi_new_uv_buf_array(Len(buffers))
    IN  [c_buffers |-> c_buffers,
         uv_buffers |-> [i \in 1..Len(buffers) |->
                            uv_buffer_set(uv_buffers[i], c_buffers[i].addr,
                                          Len(buffers[i]))]]

\* Buffers.__len__
Buffers_len(b) == Len(b.c_buffers)

\* ---- uv/handles/tty.py --------------------------------------------------
\* cross_uv_tty_init(loop, tty, fd, readable) -> status: a fresh tty block
\* is referenced, not closing and in normal mode
lib_uv_tty_init(s, h, code) ==
    LET s1 == [s EXCEPT !.ncalls = @ \cup {"uv_tty_init"}]
    IN  IF code < 0 THEN s1
        ELSE [s1 EXCEPT !.uv_ref[h] = TRUE, !.uv_active[h] = FALSE,
                        !.uv_closing[h] = FALSE, !.uv_tty_mode[h] = "NORMAL"]

\* uv_tty_set_mode(tty, mode) -> status
lib_uv_tty_set_mode(s, h, mode, code) ==
    LET s1 == lib_call(s, h, "uv_tty_set_mode")
    IN  IF s1.exc # "none" THEN s1
        ELSE IF code # 0 THEN Return(s1, code)
        ELSE Return([s1 EXCEPT !.uv_tty_mode[h] = mode], 0)

\* uv_tty_get_winsize(tty, width, height) -> status; size: what the
\* terminal has
lib_uv_tty_get_winsize(s, h, size, code) ==
    LET s1 == lib_call(s, h, "uv_tty_get_winsize")
    IN  IF s1.exc # "none" THEN s1
        ELSE IF code # 0 THEN Return(s1, <<code, <<0, 0>>>>)
        ELSE Return(s1, <<0, size>>)

\* TTY(fd, readable): the constructor of the handle base class registers
\* the handle and runs the native init; a failed init destroys the handle
TTY_init(s, h, code) ==
    LET s1 == Handle_init(s, h)
        s2 == lib_uv_tty_init(s1, h, code)
    IN  IF s1.exc # "none" THEN s1
        ELSE IF code < 0
             THEN LET s3 == Handle_destroy(s2, h)
                  IN  IF s3.exc # "none" THEN s3 ELSE Raise(s3, "UVError")
             ELSE s2

\* uv_tty_reset_mode() -> status: the terminal goes back to the mode it
\* had before the first set_mode
lib_uv_tty_reset_mode(s, code) ==
    LET s1 == [s EXCEPT !.ncalls = @ \cup {"uv_tty_reset_mode"}]
    IN  IF code # 0 THEN Return(s1, code)
        ELSE Return([s1 EXCEPT !.uv_tty_mode =
                         [h \in Handles |-> IF s.uv_tty_mode[h] = "unset"
                                            THEN "unset" ELSE "NORMAL"]], 0)

\* reset_mode()
reset_mode(s, code) ==
    LET s1 == lib_uv_tty_reset_mode(s, code)
    IN  IF s1.ret # 0 THEN Raise(s1, "UVError") ELSE Return(s1, None)

\* ConsoleSize(width, height): __new__ builds the tuple, then __init__
\* passes (width, height) on to object.__init__, which takes no argument
\* and raises TypeError (Python 3, the only version setup.py declares)
ConsoleSize_init(s, width, height) ==
    Raise(Return(s, None), "TypeError")

\* TTY.console_size
TTY_console_size(s, h, size, code) ==
    LET s1 == lib_uv_tty_get_winsize(s, h, size, code)
    IN  IF Handle_closing(s, h) THEN ConsoleSize_init(s, 0, 0)
        ELSE IF s1.exc # "none" THEN s1
        ELSE IF s1.ret[1] # 0 THEN Raise(Return(s1, None), "UVError")
        ELSE ConsoleSize_init(s1, s1.ret[2][1], s1.ret[2][2])

\* variant of TTY.set_mode without the closing check
TTY_set_mode_unchecked(s, h, mode, code) ==
    LET s1 == lib_uv_tty_set_mode(s, h, mode, code)
    IN  IF s1.exc # "none" THEN s1
        ELSE IF s1.ret # 0 THEN Raise(s1, "UVError")
        ELSE Return(s1, None)

\* TTY.set_mode(mode)
TTY_set_mode(s, h, mode, code) ==
    LET s1 == lib_uv_tty_set_mode(s, h, mode, code)
    IN  IF Handle_closing(s, h) THEN Raise(s, "ClosedHandleError")
        ELSE IF s1.exc # "none" THEN s1
        ELSE IF s1.ret # 0 THEN Raise(s1, "UVError")
        ELSE Return(s1, None)

\* ---- loop pending set and request completion (design document, 4.4) ---
\* Loop.structure_set_pending
Loop_structure_set_pending(s, r) == [s EXCEPT !.pending = @ \cup {r}]

\* Loop.structure_clear_pending: removing an absent member is a no-op
Loop_structure_clear_pending(s, r) ==
    IF r \in s.pending
    THEN [s EXCEPT !.pending = @ \ {r}, !.removals[r] = @ + 1]
    ELSE s

\* base.BaseRequest(...): the native request is created and submitted; the
\* native library will call its completion callback once.
BaseRequest_init(s, r) ==
    [s EXCEPT !.base_request[r] = TRUE, !.uv_req_active = @ \cup {r}]

\* ---- uv/request.py -----------------------------------------------------
\* UVRequest.set_pending
UVRequest_set_pending(s, r) == Loop_structure_set_pending(s, r)

\* UVRequest.clear_pending
UVRequest_clear_pending(s, r) == Loop_structure_clear_pending(s, r)

\* variant of UVRequest.__init__ that checks loop.closed only after the
\* native request has been built and registered
UVRequest_init_late_check(s, r) ==
    LET s1 == UVRequest_set_pending(
                  BaseRequest_init([s EXCEPT !.finished[r] = FALSE], r), r)
    IN  IF s1.loop_closed
        THEN Raise([s1 EXCEPT !.finished[r] = TRUE], "ClosedLoopError")
        ELSE s1

\* variant of UVRequest.__init__ that never calls set_pending()
UVRequest_init_no_pending(s, r) ==
    LET s1 == [s EXCEPT !.finished[r] = FALSE]
    IN  IF s1.loop_closed
        THEN Raise([s1 EXCEPT !.finished[r] = TRUE], "ClosedLoopError")
        ELSE BaseRequest_init(s1, r)

\* UVRequest.__init__
UVRequest_init(s, r) ==
    LET s1 == [s EXCEPT !.finished[r] = FALSE]
    IN  IF s1.loop_closed
        THEN Raise([s1 EXCEPT !.finished[r] = TRUE], "ClosedLoopError")
        ELSE UVRequest_set_pending(BaseRequest_init(s1, r), r)

\* base_request.cancel(): cancel(native_request) -> status.  A cancel the
\* native library accepts only changes the status the completion callback
\* will report; the completion callback still fires.
BaseRequest_cancel(s, r, code) ==
    IF code = 0 /\ r \in s.uv_req_active
    THEN [s EXCEPT !.uv_req_canceled = @ \cup {r}]
    ELSE s

\* variant of UVRequest.cancel that finishes the request itself when the
\* native cancel succeeds
UVRequest_cancel_finishes(s, r, code) ==
    LET s1 == BaseRequest_cancel(s, r, code)
    IN  IF code # 0 THEN Raise(s1, "UVError")
        ELSE UVRequest_clear_pending([s1 EXCEPT !.finished[r] = TRUE], r)

\* UVRequest.cancel: `code != error.StatusCodes.SUCCESS`
UVRequest_cancel(s, r, code) ==
    LET s1 == BaseRequest_cancel(s, r, code)
    IN  IF code # 0 THEN Raise(s1, "UVError") ELSE s1

\* The native completion callback of a request: the Pending -> Finished
\* transition, which marks it finished and clears its pending membership.
request_completed(s, r) ==
    UVRequest_clear_pending([s EXCEPT !.finished[r] = TRUE,
                                      !.uv_req_active = @ \ {r}], r)

\* ---- initial state: nothing constructed, loop open --------------------
NoOp == [op |-> "none", h |-> 0, arg |-> None, code |-> 0,
         exc |-> "none", ret |-> None,
         ncalls |-> {}, nullref |-> FALSE,
         cb_raised |-> FALSE, native_path |-> None, native_flags |-> 0,
         was_destroyed |-> FALSE, cb_had_run |-> FALSE]

Init ==
    /\ loop_closed = FALSE
    /\ born = [h \in Handles |-> "none"]
    /\ uv_handle = [h \in Handles |-> "unset"]
    /\ on_closed = [h \in Handles |-> "unset"]
    /\ destroyed = [h \in Handles |-> FALSE]
    /\ fs = [h \in Handles |-> NoFs]
    /\ handles = {}
    /\ attachments = {}
    /\ uv_closing = [h \in Handles |-> FALSE]
    /\ uv_ref = [h \in Handles |-> FALSE]
    /\ uv_active = [h \in Handles |-> FALSE]
    /\ close_queue = [h \in Handles |-> 0]
    /\ uv_tty_mode = [h \in Handles |-> "unset"]
    /\ close_all = NoCloseAll
    /\ loop_exceptions = 0
    /\ n_close = [h \in Handles |-> 0]
    /\ last_arg = [h \in Handles |-> "unset"]
    /\ last_cb = [h \in Handles |-> dummy_callback]
    /\ invoked = [h \in Handles |-> <<>>]
    /\ destroys = [h \in Handles |-> 0]
    /\ cb_view = [h \in Handles |-> NoView]
    /\ steps = [h \in Handles |-> <<>>]
    /\ lastOp = NoOp
    /\ req_born = [r \in Requests |-> "none"]
    /\ finished = [r \in Requests |-> FALSE]
    /\ base_request = [r \in Requests |-> FALSE]
    /\ pending = {}
    /\ uv_req_active = {}
    /\ uv_req_canceled = {}
    /\ removals = [r \in Requests |-> 0]
    /\ mod_in = NoLoad
    /\ mod_out = NoModule
    /\ buf_in = NoInput
    /\ buf_obj = NoBuffers
    /\ buf_got = NoGet

\* The record of the operation a step performed: its name, target and
\* argument, how it ended (s), and what was true of the target before it.
Op(name, h, arg, s) ==
    [NoOp EXCEPT !.op = name, !.h = h, !.arg = arg,
                 !.exc = s.exc, !.ret = s.ret,
                 !.ncalls = s.ncalls, !.nullref = s.nullref,
                 !.cb_raised = s.cb_raised, !.native_path = s.native_path,
                 !.native_flags = s.native_flags,
                 !.was_destroyed = destroyed[h],
                 !.cb_had_run = invoked[h] # <<>>]

\* ---- steps of the handle lifecycle ------------------------------------
\* FSEvent(path, flags, loop, on_event) with the native init returning code
NewFSEvent(h, code) ==
    /\ born[h] = "none"
    /\ LET s == FSEvent_init(State, h, "p", 0, None, code)
       IN  /\ CommitHandles(s)
           /\ born' = [born EXCEPT ![h] = IF s.exc = "none" THEN "ok" ELSE s.exc]
           /\ lastOp' = Op("FSEvent", h, None, s)
    /\ UNCHANGED <<loop_closed, libvars, close_all, n_close, last_arg, last_cb, rvars>>

\* FSEvent(path, flags, on_event=on_event)
NewFSEventWith(h, path, flags, on_event, code) ==
    /\ born[h] = "none"
    /\ LET s == FSEvent_init(State, h, path, flags, on_event, code)
       IN  /\ CommitHandles(s)
           /\ born' = [born EXCEPT ![h] = IF s.exc = "none" THEN "ok" ELSE s.exc]
           /\ lastOp' = Op("FSEvent", h, None, s)
    /\ UNCHANGED <<loop_closed, libvars, close_all, n_close, last_arg, last_cb, rvars>>

\* fs_event.start(path, flags, on_event)
Start(h, path, flags, on_event, code, conv) ==
    /\ born[h] = "ok"
    /\ LET s == FSEvent_start(State, h, path, flags, on_event, code, conv)
       IN  /\ CommitHandles(s)
           /\ lastOp' = Op("start", h, [path |-> path, flags |-> flags,
                                       on_event |-> on_event], s)
    /\ UNCHANGED <<loop_closed, libvars, close_all, born, n_close, last_arg, last_cb, rvars>>

\* fs_event.stop()
Stop(h, code) ==
    /\ born[h] = "ok"
    /\ LET s == FSEvent_stop(State, h, code)
       IN  /\ CommitHandles(s)
           /\ lastOp' = [Op("stop", h, None, s) EXCEPT !.code = code]
    /\ UNCHANGED <<loop_closed, libvars, close_all, born, n_close, last_arg, last_cb, rvars>>

\* the native loop reports a filesystem event of an active watcher
FsEventCb(h, c_filename, raises) ==
    /\ uv_active[h]
    /\ LET s == uv_fs_event_cb(State, h, c_filename, raises)
       IN  /\ CommitHandles(s)
           /\ lastOp' = Op("uv_fs_event_cb", h, None, s)
    /\ UNCHANGED <<loop_closed, libvars, close_all, born, n_close, last_arg, last_cb, rvars>>

\* handle.close(cb): user code holds only handles whose constructor returned
Close(h, cb) ==
    /\ born[h] = "ok"
    /\ invoked[h] = <<>> => n_close[h] < MaxCloseCalls
    /\ LET s == Handle_close(State, h, cb)
       IN  /\ CommitHandles(s)
           /\ lastOp' = Op("close", h, cb, s)
    /\ IF invoked[h] = <<>>
       THEN /\ n_close' = [n_close EXCEPT ![h] = @ + 1]
            /\ last_arg' = [last_arg EXCEPT ![h] = cb]
            /\ last_cb' = [last_cb EXCEPT ![h] = IF cb = None THEN @ ELSE cb]
       ELSE UNCHANGED <<n_close, last_arg, last_cb>>
    /\ UNCHANGED <<loop_closed, libvars, close_all, born, rvars>>

\* uv.close_all_handles(cb)
CloseAll(cb) ==
    /\ \A h \in handles : n_close[h] < MaxCloseCalls
    /\ LET s == close_all_handles(State, handles, cb)
       IN  /\ CommitHandles(s)
           /\ lastOp' = [NoOp EXCEPT !.op = "close_all_handles", !.arg = cb,
                                     !.exc = s.exc, !.ncalls = s.ncalls]
    /\ close_all' = [called |-> TRUE,
                     targets |-> close_all.targets \cup handles,
                     closing |-> close_all.closing \cup
                                 {h \in handles : uv_closing[h]}]
    /\ n_close' = [h \in Handles |->
                      IF h \in handles THEN n_close[h] + 1 ELSE n_close[h]]
    /\ last_arg' = [h \in Handles |->
                       IF h \in handles THEN cb ELSE last_arg[h]]
    /\ last_cb' = [h \in Handles |->
                      IF h \in handles /\ cb # None THEN cb ELSE last_cb[h]]
    /\ UNCHANGED <<loop_closed, libvars, born, rvars>>

\* the native loop calls the close trampoline of one queued close
Dispatch(h, raises) ==
    /\ close_queue[h] > 0
    /\ LET s == uv_close_cb([State EXCEPT !.close_queue[h] = @ - 1], h, raises)
       IN  /\ CommitHandles(s)
           /\ lastOp' = Op("uv_close_cb", h, None, s)
    /\ UNCHANGED <<loop_closed, libvars, close_all, born, n_close, last_arg, last_cb, rvars>>

\* an accessor or reference operation: only lastOp and the native flags move
Perform(name, h, s) ==
    /\ born[h] = "ok"
    /\ CommitHandles(s)
    /\ lastOp' = Op(name, h, None, s)
    /\ UNCHANGED <<loop_closed, libvars, close_all, born, n_close, last_arg, last_cb, rvars>>

Active(h) == Perform("active", h, Handle_active(State, h))
Closed(h) == Perform("closed", h, Handle_closed(State, h))
Referenced(h) == Perform("referenced", h, Handle_referenced(State, h))
SendGet(h, code) ==
    Perform("send_buffer_size", h, Handle_send_buffer_size_get(State, h, code))
SendSet(h, code) ==
    Perform("send_buffer_size=", h, Handle_send_buffer_size_set(State, h, code))
RecvGet(h, code) ==
    Perform("receive_buffer_size", h,
            Handle_receive_buffer_size_get(State, h, code))
RecvSet(h, code) ==
    Perform("receive_buffer_size=", h,
            Handle_receive_buffer_size_set(State, h, code))
Fileno(h, code) == Perform("fileno", h, Handle_fileno(State, h, code))
Reference(h) == Perform("reference", h, Handle_reference(State, h))
Dereference(h) == Perform("dereference", h, Handle_dereference(State, h))

\* loop.close()
CloseLoop ==
    /\ ~loop_closed
    /\ LET s == Loop_close(State)
       IN  /\ loop_closed' = s.loop_closed
           /\ lastOp' = [NoOp EXCEPT !.op = "Loop.close", !.exc = s.exc]
    /\ UNCHANGED <<hvars, rvars, libvars>>

\* Lifecycle of a handle: construction, close, close completion, loop close.
Next ==
    \/ \E h \in OpSet, code \in Codes : NewFSEvent(h, code)
    \/ \E h \in OpSet, cb \in Callbacks \cup {None} : Close(h, cb)
    \/ \E h \in OpSet, raises \in BOOLEAN : Dispatch(h, raises)
    \/ CloseLoop

Spec == Init /\ [][Next]_vars

\* The accessors and reference operations in every phase of the lifecycle.
NextOps ==
    \/ \E h \in OpSet, code \in Codes : NewFSEvent(h, code)
    \/ \E h \in OpSet : Close(h, None)
    \/ \E h \in OpSet : Dispatch(h, FALSE)
    \/ \E h \in OpSet : Active(h)
    \/ \E h \in OpSet : Closed(h)
    \/ \E h \in OpSet : Referenced(h)
    \/ \E h \in OpSet, code \in Codes : SendGet(h, code)
    \/ \E h \in OpSet, code \in Codes : SendSet(h, code)
    \/ \E h \in OpSet, code \in Codes : RecvGet(h, code)
    \/ \E h \in OpSet, code \in Codes : RecvSet(h, code)
    \/ \E h \in OpSet, code \in Codes : Fileno(h, code)
    \/ \E h \in OpSet : Reference(h)
    \/ \E h \in OpSet : Dereference(h)

SpecOps == Init /\ [][NextOps]_vars

\* Several handles: handles are built (or fail to initialise) and some are
\* closed, then close_all_handles() is called once; the loop runs the close
\* trampolines it has queued.
NextAll ==
    \/ \E h \in Handles, code \in Codes :
          ~close_all.called /\ NewFSEvent(h, code)
    \/ \E h \in Handles : ~close_all.called /\ Close(h, None)
    \/ \E cb \in {None, "cbA"} : ~close_all.called /\ CloseAll(cb)
    \/ \E h \in Handles, raises \in BOOLEAN : Dispatch(h, raises)

SpecAll == Init /\ [][NextAll]_vars

\* Shutdown of a program: watchers are built and started, some report an
\* event and some are closed, then close_all_handles() is called once and
\* the loop keeps running.
NextQuit ==
    \/ \E h \in Handles : ~close_all.called /\ NewFSEvent(h, 0)
    \/ \E h \in Handles, conv \in NoneConversions :
          ~close_all.called /\ Start(h, "q", <<1>>, "evB", 0, conv)
    \/ \E h \in Handles : ~close_all.called /\ FsEventCb(h, "c:p", FALSE)
    \/ \E h \in Handles : ~close_all.called /\ Close(h, None)
    \/ ~close_all.called /\ CloseAll(None)
    \/ \E h \in Handles : Dispatch(h, FALSE)

\* the running loop calls every close trampoline it has queued
FairQuit == WF_vars(\E h \in Handles : Dispatch(h, FALSE))

SpecQuit == Init /\ [][NextQuit]_vars /\ FairQuit

\* filesystem watcher lifecycle: a watcher is constructed, started with
\* nothing or with everything overridden, stopped, reports events, and is
\* closed
StartArgs == {<<None, <<>>, None>>, <<"q", <<1>>, "evB">>}

NextFS ==
    \/ \E h \in OpSet, code \in Codes : NewFSEvent(h, code)
    \/ \E h \in OpSet, a \in StartArgs, code \in Codes,
          conv \in NoneConversions :
          Start(h, a[1], a[2], a[3], code, conv)
    \/ \E h \in OpSet, code \in Codes : Stop(h, code)
    \/ \E h \in OpSet, c_filename \in Filenames, raises \in BOOLEAN :
          FsEventCb(h, c_filename, raises)
    \/ \E h \in OpSet : Close(h, None)
    \/ \E h \in OpSet : Dispatch(h, FALSE)

SpecFS == Init /\ [][NextFS]_vars

\* filesystem watcher arguments: every combination of constructor and
\* start() arguments
NextStart ==
    \/ \E h \in OpSet, path \in {None} \cup Paths, flags \in Flags,
          on_event \in {None} \cup EventCallbacks, code \in Codes :
          NewFSEventWith(h, path, flags, on_event, code)
    \/ \E h \in OpSet, path \in PathArgs, flags \in FlagArgs,
          on_event \in {None} \cup EventCallbacks, code \in Codes,
          conv \in NoneConversions :
          Start(h, path, flags, on_event, code, conv)
    \/ \E h \in OpSet, code \in Codes : Stop(h, code)
    \/ \E h \in OpSet, c_filename \in Filenames, raises \in BOOLEAN :
          FsEventCb(h, c_filename, raises)
    \/ \E h \in OpSet : Close(h, None)
    \/ \E h \in OpSet : Dispatch(h, FALSE)

SpecStart == Init /\ [][NextStart]_vars

\* ---- steps of a tty handle ----------------------------------------------
\* TTY(fd)
NewTTY(h, code) ==
    /\ born[h] = "none"
    /\ LET s == TTY_init(State, h, code)
       IN  /\ CommitHandles(s)
           /\ born' = [born EXCEPT ![h] = IF s.exc = "none" THEN "ok" ELSE s.exc]
           /\ lastOp' = Op("TTY", h, None, s)
    /\ UNCHANGED <<loop_closed, libvars, close_all, n_close, last_arg, last_cb, rvars>>

\* tty.set_mode(mode)
SetMode(h, mode, code) ==
    /\ born[h] = "ok"
    /\ LET s == TTY_set_mode(State, h, mode, code)
       IN  /\ CommitHandles(s)
           /\ lastOp' = [Op("set_mode", h, mode, s) EXCEPT !.code = code]
    /\ UNCHANGED <<loop_closed, libvars, close_all, born, n_close, last_arg, last_cb, rvars>>

\* tty.console_size
ConsoleSize(h, size, code) ==
    /\ born[h] = "ok"
    /\ LET s == TTY_console_size(State, h, size, code)
       IN  /\ CommitHandles(s)
           /\ lastOp' = [Op("console_size", h, size, s) EXCEPT !.code = code]
    /\ UNCHANGED <<loop_closed, libvars, close_all, born, n_close, last_arg, last_cb, rvars>>

\* uv.handles.tty.reset_mode()
ResetMode(code) ==
    /\ LET s == reset_mode(State, code)
       IN  /\ CommitHandles(s)
           /\ lastOp' = [NoOp EXCEPT !.op = "reset_mode", !.code = code,
                                     !.exc = s.exc, !.ncalls = s.ncalls]
    /\ UNCHANGED <<loop_closed, libvars, close_all, born, n_close, last_arg, last_cb, rvars>>

NextTTY ==
    \/ \E h \in OpSet, code \in Codes : NewTTY(h, code)
    \/ \E h \in OpSet, mode \in TTYModes, code \in StatusCodes :
          SetMode(h, mode, code)
    \/ \E h \in OpSet, size \in WinSizes, code \in StatusCodes :
          ConsoleSize(h, size, code)
    \/ \E code \in StatusCodes : ResetMode(code)
    \/ \E h \in OpSet : Close(h, None)
    \/ \E h \in OpSet : Dispatch(h, FALSE)

SpecTTY == Init /\ [][NextTTY]_vars

\* the handle a constructor returned is a watcher / a tty
IsFSEvent(h) == born[h] = "ok" /\ uv_tty_mode[h] = "unset"
IsTTY(h) == born[h] = "ok" /\ uv_tty_mode[h] # "unset"

\* The whole user-visible API of a handle (both constructors, start, stop,
\* close, close_all_handles, every accessor, the tty operations, loop.close)
\* next to the two native trampolines.
NextAPI ==
    \/ \E h \in OpSet, code \in Codes : NewFSEvent(h, code)
    \/ \E h \in OpSet, code \in Codes : NewTTY(h, code)
    \/ \E h \in OpSet, a \in StartArgs, code \in Codes,
          conv \in NoneConversions :
          IsFSEvent(h) /\ Start(h, a[1], a[2], a[3], code, conv)
    \/ \E h \in OpSet, code \in Codes : IsFSEvent(h) /\ Stop(h, code)
    \/ \E h \in OpSet, c_filename \in Filenames, raises \in BOOLEAN :
          IsFSEvent(h) /\ FsEventCb(h, c_filename, raises)
    \/ \E h \in OpSet, mode \in TTYModes, code \in StatusCodes :
          IsTTY(h) /\ SetMode(h, mode, code)
    \/ \E h \in OpSet, size \in WinSizes, code \in StatusCodes :
          IsTTY(h) /\ ConsoleSize(h, size, code)
    \/ \E code \in StatusCodes : ResetMode(code)
    \/ \E h \in OpSet, cb \in {None, "cbA"} : Close(h, cb)
    \/ \E cb \in {None, "cbA"} : CloseAll(cb)
    \/ \E h \in OpSet, raises \in BOOLEAN : Dispatch(h, raises)
    \/ \E h \in OpSet : Active(h)
    \/ \E h \in OpSet : Closed(h)
    \/ \E h \in OpSet : Referenced(h)
    \/ \E h \in OpSet, code \in Codes : SendGet(h, code)
    \/ \E h \in OpSet, code \in Codes : SendSet(h, code)
    \/ \E h \in OpSet, code \in Codes : RecvGet(h, code)
    \/ \E h \in OpSet, code \in Codes : RecvSet(h, code)
    \/ \E h \in OpSet, code \in Codes : Fileno(h, code)
    \/ \E h \in OpSet : Reference(h)
    \/ \E h \in OpSet : Dereference(h)
    \/ CloseLoop

SpecAPI == Init /\ [][NextAPI]_vars

\* ---- steps of uv/library.py ---------------------------------------------
\* the interpreter imports uv.library
LoadModule(in) ==
    /\ ~mod_in.loaded
    /\ mod_in' = in
    /\ mod_out' = library_load(in)
    /\ lastOp' = [NoOp EXCEPT !.op = "import", !.exc = mod_out'.exc]
    /\ UNCHANGED <<loop_closed, hvars, rvars, buf_in, buf_obj, buf_got>>

\* a failed import is retried in a fresh interpreter
Unload ==
    /\ mod_in.loaded
    /\ mod_in' = NoLoad
    /\ mod_out' = NoModule
    /\ lastOp' = [NoOp EXCEPT !.op = "exit"]
    /\ UNCHANGED <<loop_closed, hvars, rvars, buf_in, buf_obj, buf_got>>

NextLoad ==
    \/ \E mock \in BOOLEAN, trace \in BOOLEAN, v \in Versions,
          uvcffi_version \in Versions, c_library_version \in Versions,
          version_hex \in VersionHexes :
          LoadModule([loaded |-> TRUE, mock |-> mock, trace |-> trace,
                      version |-> v, uvcffi_version |-> uvcffi_version,
                      c_library_version |-> c_library_version,
                      version_hex |-> version_hex])
    \/ Unload

SpecLoad == Init /\ [][NextLoad]_vars

\* Buffers(input)
NewBuffers(input) ==
    /\ buf_in.kind = "none"
    /\ buf_in' = input
    /\ buf_obj' = Buffers(input)
    /\ buf_got' = NoGet
    /\ lastOp' = [NoOp EXCEPT !.op = "Buffers"]
    /\ UNCHANGED <<loop_closed, hvars, rvars, mod_in, mod_out>>

\* uv_buffer_get(addressof(uv_buffers[i - 1]))
BufferGet(i) ==
    /\ i \in 1..Len(buf_obj.uv_buffers)
    /\ buf_got' = [index |-> i,
                   base |-> uv_buffer_get(buf_obj.uv_buffers[i]).base,
                   length |-> uv_buffer_get(buf_obj.uv_buffers[i]).length]
    /\ lastOp' = [NoOp EXCEPT !.op = "uv_buffer_get", !.h = i]
    /\ UNCHANGED <<loop_closed, hvars, rvars, mod_in, mod_out, buf_in, buf_obj>>

NextBuf ==
    \/ \E input \in BufferInputs : NewBuffers(input)
    \/ \E i \in 1..MaxBufs : BufferGet(i)

SpecBuf == Init /\ [][NextBuf]_vars

\* ---- steps of the request lifecycle -----------------------------------
ReqOp(name, r, s) ==
    [NoOp EXCEPT !.op = name, !.h = r, !.exc = s.exc]

\* a request is constructed on the loop
NewRequest(r) ==
    /\ req_born[r] = "none"
    /\ LET s == UVRequest_init(State, r)
       IN  /\ CommitRequests(s)
           /\ req_born' = [req_born EXCEPT
                             ![r] = IF s.exc = "none" THEN "ok" ELSE s.exc]
           /\ lastOp' = ReqOp("UVRequest", r, s)
    /\ UNCHANGED <<loop_closed, libvars, close_all, hvars>>

\* the native library completes a submitted request
Complete(r) ==
    /\ r \in uv_req_active
    /\ LET s == request_completed(State, r)
       IN  /\ CommitRequests(s)
           /\ lastOp' = ReqOp("completion", r, s)
    /\ UNCHANGED <<loop_closed, libvars, close_all, hvars, req_born>>

\* request.cancel() with the native cancel returning code; user code holds
\* only requests whose constructor returned
Cancel(r, code) ==
    /\ req_born[r] = "ok"
    /\ LET s == UVRequest_cancel(State, r, code)
       IN  /\ CommitRequests(s)
           /\ lastOp' = [ReqOp("cancel", r, s) EXCEPT !.code = code]
    /\ UNCHANGED <<loop_closed, libvars, close_all, hvars, req_born>>

NextReq ==
    \/ \E r \in Requests : NewRequest(r)
    \/ \E r \in Requests : Complete(r)
    \/ \E r \in Requests, code \in CancelCodes : Cancel(r, code)
    \/ CloseLoop

SpecReq == Init /\ [][NextReq]_vars

\* ======================================================================
\* Properties
\* ======================================================================

\* operations of Handle that C1 names
HandleOps == {"active", "referenced", "send_buffer_size", "send_buffer_size=",
              "receive_buffer_size", "receive_buffer_size=", "fileno",
              "reference", "dereference", "close"}
\* the closed property reads True on every handle whose close completed
ClosedAfterCompletion ==
    \A h \in Handles :
        (born[h] = "ok" /\ invoked[h] # <<>>) =>
            LET s == Handle_closed(State, h)
            IN  s.exc = "none" /\ s.ret = "True"

\* C1: once uv_close_cb has run for H, H.closed is True and every later
\* operation on H (active, referenced, the buffer-size accessors, fileno,
\* reference, dereference, close) fails with ClosedStructure.
C1_EveryOpFailsClosed ==
    /\ ClosedAfterCompletion
    /\ (lastOp.op \in HandleOps /\ lastOp.cb_had_run) =>
           lastOp.exc = "ClosedStructure"

\* C2: two or more close() calls before the close completes give exactly
\* one on_closed invocation and exactly one destroy, with the native loop
\* calling the trampoline once per uv_close call: never more than one of
\* each, and exactly one of each once every queued trampoline has run.
C2_CloseIdempotent ==
    \A h \in Handles :
        n_close[h] >= 2 =>
            /\ Len(invoked[h]) <= 1
            /\ destroys[h] <= 1
            /\ close_queue[h] = 0 => (Len(invoked[h]) = 1 /\ destroys[h] = 1)

\* close() was called twice and both queued trampolines have been called
C2_Witness ==
    \E h \in Handles :
        /\ n_close[h] >= 2
        /\ close_queue[h] = 0
        /\ Len(invoked[h]) = 1
        /\ destroys[h] = 1
        /\ lastOp.op = "uv_close_cb"
        /\ lastOp.h = h

\* C3: when uv_fs_event_init fails in the FSEvent constructor, UVError is
\* raised and the handle is fully released: destroyed, not in `handles`,
\* and no attachment for its native block remains.
C3_InitFailureReleasesAll ==
    \A h \in Handles :
        born[h] = "UVError" =>
            /\ destroyed[h]
            /\ h \notin handles
            /\ h \notin attachments

\* C4: constructing a handle on a closed loop raises ClosedStructure and
\* leaves no trace: no attachment registered, not added to `handles`.
C4_ClosedLoopLeavesNoTrace ==
    \A h \in Handles :
        born[h] = "ClosedStructure" =>
            /\ h \notin attachments
            /\ h \notin handles

LiveView(v) == ~v.uv_null /\ v.attached /\ ~v.destroyed
DestroyedView(v) == v.uv_null /\ ~v.attached /\ ~v.in_handles /\ v.destroyed
ViewNow(h) == [seen |-> TRUE, attached |-> h \in attachments,
               destroyed |-> destroyed[h], uv_null |-> uv_handle[h] = None,
               in_handles |-> h \in handles]

\* C5: in every state user code can observe (between operations, and inside
\* on_closed) each constructed handle is either live (uv_handle non-null,
\* attached, not destroyed) or destroyed (uv_handle null, detached, not in
\* `handles`, destroyed).
C5_LiveOrDestroyed ==
    \A h \in Handles :
        born[h] = "ok" =>
            /\ LiveView(ViewNow(h)) \/ DestroyedView(ViewNow(h))
            /\ cb_view[h].seen =>
                   LiveView(cb_view[h]) \/ DestroyedView(cb_view[h])

\* position of the first x in seq (0 when absent)
Pos(seq, x) ==
    IF \E i \in 1..Len(seq) : seq[i] = x
    THEN CHOOSE i \in 1..Len(seq) :
             seq[i] = x /\ \A j \in 1..(i - 1) : seq[j] # x
    ELSE 0

\* C6: on Closing -> Destroyed the steps run in this order: on_closed is
\* invoked, then the attachment is removed, then the handle leaves
\* `handles` and its native reference is released; the handle is still
\* attached while on_closed runs.
C6_CompletionOrder ==
    \A h \in Handles :
        invoked[h] # <<>> =>
            /\ cb_view[h].attached
            /\ Pos(steps[h], "on_closed") < Pos(steps[h], "detach")
            /\ Pos(steps[h], "detach") < Pos(steps[h], "handles.remove")
            /\ Pos(steps[h], "detach") < Pos(steps[h], "uv_handle=None")

\* C7 as stated: destroyed becomes True only in a step of uv_close_cb for
\* that handle; no user-visible call (constructor, start, stop, close,
\* accessors) destroys.
C7_OnlyCloseCbDestroys ==
    [][\A h \in Handles :
           (~destroyed[h] /\ destroyed'[h]) =>
               (lastOp'.op = "uv_close_cb" /\ lastOp'.h = h)]_vars

\* the constructors of the handle kinds
Constructors == {"FSEvent", "TTY"}

\* C7 as amended: destroyed becomes True only in a step of uv_close_cb for
\* that handle, or in the constructor of that handle when the native init
\* fails (the constructor then raises UVError); start, stop, close,
\* close_all_handles, the accessors, the tty operations, the event
\* trampoline and loop.close never destroy.
C7_DestroyOnlyOnCompletionOrInitFailure ==
    [][\A h \in Handles :
           (~destroyed[h] /\ destroyed'[h]) =>
               /\ lastOp'.h = h
               /\ \/ lastOp'.op = "uv_close_cb"
                  \/ lastOp'.op \in Constructors /\ lastOp'.exc = "UVError"]_vars

\* uv_close_cb has just destroyed a handle that close() was called on
C7_Witness ==
    /\ lastOp.op = "uv_close_cb"
    /\ ~lastOp.was_destroyed
    /\ lastOp.exc = "none"
    /\ destroyed[lastOp.h]
    /\ n_close[lastOp.h] >= 1

\* C8 as stated: the callback invoked at completion is the one supplied by
\* the most recent close() call, for every sequence of arguments; when the
\* most recent call supplied none, no callback of an earlier call is run.
C8_LastWriterWins ==
    \A h \in Handles :
        invoked[h] # <<>> =>
            /\ last_arg[h] \in Callbacks => invoked[h][1] = last_arg[h]
            /\ last_arg[h] = None => invoked[h][1] \notin Callbacks

\* C8 as amended: the callback invoked at completion is the one supplied by
\* the most recent close() call that supplied a callback (the initial
\* dummy_callback when none did); a close() without a callback keeps the
\* callback stored by an earlier call.
C8_LastSuppliedWins ==
    \A h \in Handles :
        invoked[h] # <<>> => invoked[h][1] = last_cb[h]

\* completion after close(cb) followed by close(): cb was invoked
C8_Witness ==
    \E h \in Handles :
        /\ n_close[h] >= 2
        /\ last_arg[h] = None
        /\ invoked[h] # <<>>
        /\ invoked[h][1] \in Callbacks

\* C9: close() on a destroyed handle is a silent no-op: it raises nothing,
\* makes no native call, leaves the stored on_closed as it is (also when a
\* callback is passed) and queues no further on_closed invocation.
C9_CloseDestroyedNoOp ==
    [][(lastOp'.op = "close" /\ lastOp'.h \in Handles /\ destroyed[lastOp'.h]) =>
           /\ lastOp'.exc = "none"
           /\ lastOp'.ncalls = {}
           /\ on_closed' = on_closed
           /\ close_queue' = close_queue
           /\ invoked' = invoked
           /\ UNCHANGED <<uv_handle, destroyed, handles, attachments,
                          uv_closing, destroys>>]_vars

\* close(cb) has just been called on a destroyed handle with a callback
\* that differs from the stored one
C9_Witness ==
    /\ lastOp.op = "close"
    /\ lastOp.was_destroyed
    /\ lastOp.arg \in Callbacks
    /\ lastOp.exc = "none"
    /\ on_closed[lastOp.h] # lastOp.arg

\* C10: a request whose construction returned normally is in the pending
\* set exactly while it is not finished; no request is both finished and
\* pending, or both unfinished and absent from the pending set; it leaves
\* the pending set exactly once, together with becoming finished.
C10_PendingInvariant ==
    \A r \in Requests :
        /\ req_born[r] = "ok" => (r \in pending <=> ~finished[r])
        /\ ~(finished[r] /\ r \in pending)
        /\ req_born[r] # "none" => ~(~finished[r] /\ r \notin pending)
        /\ removals[r] = IF req_born[r] = "ok" /\ finished[r] THEN 1 ELSE 0

\* one request has completed and left the pending set while another,
\* constructed as well, is still pending
C10_Witness ==
    \E r1, r2 \in Requests :
        /\ req_born[r1] = "ok" /\ finished[r1] /\ r1 \notin pending
        /\ removals[r1] = 1
        /\ req_born[r2] = "ok" /\ ~finished[r2] /\ r2 \in pending

\* C11: cancel() never changes the request's lifecycle state: whether the
\* native cancel succeeds or fails, finished and the pending set are the
\* same after the call as before; a code other than SUCCESS is raised as
\* UVError, SUCCESS returns normally.
C11_CancelKeepsLifecycle ==
    [][lastOp'.op = "cancel" =>
           /\ finished' = finished
           /\ pending' = pending
           /\ removals' = removals
           /\ lastOp'.code # 0 <=> lastOp'.exc = "UVError"
           /\ lastOp'.code = 0 <=> lastOp'.exc = "none"]_vars

\* a native cancel has just succeeded on a request that is still pending
C11_Witness ==
    /\ lastOp.op = "cancel"
    /\ lastOp.code = 0
    /\ lastOp.exc = "none"
    /\ lastOp.h \in pending
    /\ lastOp.h \in uv_req_canceled
    /\ ~finished[lastOp.h]

\* C12: constructing a request on a closed loop raises ClosedLoopError; the
\* request is marked finished, no BaseRequest is built (no native request
\* exists) and the request never enters the pending set.
C12_ClosedLoopRequest ==
    /\ \A r \in Requests :
           req_born[r] = "ClosedLoopError" =>
               /\ finished[r]
               /\ ~base_request[r]
               /\ r \notin uv_req_active
               /\ r \notin pending
               /\ removals[r] = 0
    /\ (lastOp.op = "UVRequest" /\ loop_closed) =>
           req_born[lastOp.h] = "ClosedLoopError"

\* a request has just been constructed on the closed loop
C12_Witness ==
    /\ lastOp.op = "UVRequest"
    /\ lastOp.exc = "ClosedLoopError"
    /\ loop_closed
    /\ finished[lastOp.h]

\* C13: when on_closed raises, the error is captured by the loop's callback
\* context and does not leave uv_close_cb, and the handle is destroyed all
\* the same: uv_handle nulled, removed from `handles`, destroyed True.
C13_RaisingOnClosedStillDestroys ==
    [][(lastOp'.op = "uv_close_cb" /\ lastOp'.cb_raised) =>
           /\ lastOp'.exc = "none"
           /\ loop_exceptions' = loop_exceptions + 1
           /\ uv_handle'[lastOp'.h] = None
           /\ lastOp'.h \notin handles'
           /\ destroyed'[lastOp'.h]
           /\ destroys'[lastOp'.h] = destroys[lastOp'.h] + 1]_vars

\* uv_close_cb has just run an on_closed that raised
C13_Witness ==
    /\ lastOp.op = "uv_close_cb"
    /\ lastOp.cb_raised
    /\ ~lastOp.was_destroyed
    /\ destroyed[lastOp.h]
    /\ loop_exceptions >= 1

\* C14: when on_event raises, nothing leaves the uv_fs_event_cb trampoline,
\* the loop's exception handler receives the error exactly once, and the
\* destroyed flag and the membership in `handles` stay as they were.
C14_RaisingOnEventIsReported ==
    [][(lastOp'.op = "uv_fs_event_cb" /\ lastOp'.cb_raised) =>
           /\ lastOp'.exc = "none"
           /\ loop_exceptions' = loop_exceptions + 1
           /\ destroyed' = destroyed
           /\ handles' = handles
           /\ uv_handle' = uv_handle]_vars

\* the event trampoline has just run an on_event that raised
C14_Witness ==
    /\ lastOp.op = "uv_fs_event_cb"
    /\ lastOp.cb_raised
    /\ loop_exceptions = 1
    /\ lastOp.h \in handles
    /\ ~destroyed[lastOp.h]

BufferSizeOps == {"send_buffer_size", "send_buffer_size=",
                  "receive_buffer_size", "receive_buffer_size="}

\* C15: once close() has been called on a handle, while it is closing and
\* not only once it is destroyed, the four buffer-size accessors fail with
\* ClosedStructure and make no native call.
C15_BufferSizeFailsWhileClosing ==
    (/\ lastOp.op \in BufferSizeOps
     /\ n_close[lastOp.h] > 0
     /\ uv_closing[lastOp.h]
     /\ ~destroyed[lastOp.h]) =>
        lastOp.exc = "ClosedStructure" /\ lastOp.ncalls = {}

\* the list of byte strings a Buffers argument stands for
InputSeq == IF buf_in.kind = "bytes" THEN <<buf_in.value>> ELSE buf_in.value

\* C16: Buffers(seq) has one descriptor per input buffer, in input order;
\* uv_buffer_get on descriptor i gives the base of the i-th pinned copy and
\* the length len(seq[i]), zero-length buffers included; the pinned copy
\* holds the buffer's bytes; a bare bytes value counts as a one-element
\* sequence; len(Buffers) is the number of input buffers.
C16_OneDescriptorPerBuffer ==
    buf_in.kind # "none" =>
        /\ Len(buf_obj.uv_buffers) = Len(InputSeq)
        /\ Len(buf_obj.c_buffers) = Len(InputSeq)
        /\ Buffers_len(buf_obj) = Len(InputSeq)
        /\ buf_in.kind = "bytes" => Buffers_len(buf_obj) = 1
        /\ \A i \in 1..Len(InputSeq) :
               /\ uv_buffer_get(buf_obj.uv_buffers[i]).base
                      = buf_obj.c_buffers[i].addr
               /\ uv_buffer_get(buf_obj.uv_buffers[i]).length
                      = Len(InputSeq[i])
               /\ SubSeq(buf_obj.c_buffers[i].data, 1, Len(InputSeq[i]))
                      = InputSeq[i]
               /\ \A j \in 1..Len(InputSeq) :
                      i # j => buf_obj.c_buffers[i].addr
                                   # buf_obj.c_buffers[j].addr
        /\ buf_got.index # 0 =>
               /\ buf_got.base = buf_obj.c_buffers[buf_got.index].addr
               /\ buf_got.length = Len(InputSeq[buf_got.index])

\* two buffers, the first of length zero; the second descriptor was read
C16_Witness ==
    /\ buf_in.kind = "list"
    /\ Len(buf_in.value) = 2
    /\ buf_in.value[1] = <<>>
    /\ Len(buf_in.value[2]) = 2
    /\ buf_got.index = 2
    /\ buf_got.length = 2

\* C17: loading the module raises when the cffi base module's version or
\* the C library's version differs from __version__, and then none of ffi,
\* lib, the version tuple and the buffer helpers is exposed; when both
\* match, the load proceeds and exposes them.  (Under PYTHON_MOCK_LIBUV
\* both versions are the binding's own.)
C17_VersionMismatchFailsFast ==
    mod_in.loaded =>
        LET base == IF mod_in.mock THEN mod_in.version
                    ELSE mod_in.uvcffi_version
            clib == IF mod_in.mock THEN mod_in.version
                    ELSE mod_in.c_library_version
        IN  /\ (base # mod_in.version \/ clib # mod_in.version) =>
                   mod_out.exc = "RuntimeError" /\ mod_out.exposed = {}
            /\ (base = mod_in.version /\ clib = mod_in.version) =>
                   mod_out.exc = "none" /\ mod_out.exposed = LibraryNames

\* the base module matches and the C library does not: the load failed
C17_Witness ==
    /\ mod_in.loaded
    /\ ~mod_in.mock
    /\ mod_in.uvcffi_version = mod_in.version
    /\ mod_in.c_library_version # mod_in.version
    /\ mod_out.exc = "RuntimeError"
    /\ mod_out.message = "incompatible cffi c library"

\* C18: start() on a handle that is closing or closed raises
\* HandleClosedError before anything else: no native call is made and
\* path, flags and on_event (and the rest of the handle) stay as they were.
C18_StartOnClosingRaisesFirst ==
    [][(/\ lastOp'.op = "start"
        /\ (destroyed[lastOp'.h] \/ uv_closing[lastOp'.h])) =>
           /\ lastOp'.exc = "HandleClosedError"
           /\ lastOp'.ncalls = {}
           /\ fs' = fs
           /\ uv_active' = uv_active
           /\ uv_handle' = uv_handle]_vars

\* start("q", 1, evB) was just refused on a closing handle that still has
\* the path the constructor gave it
C18_Witness ==
    /\ lastOp.op = "start"
    /\ lastOp.exc = "HandleClosedError"
    /\ lastOp.arg.path = "q"
    /\ uv_closing[lastOp.h]
    /\ ~destroyed[lastOp.h]
    /\ fs[lastOp.h].path = "p"

\* C19: start() on a handle that is not closing stores every argument that
\* is specified (not None) and keeps the stored value otherwise, for path,
\* flags and on_event, flags=0 over non-zero stored flags included.
C19_StartOverridesSpecified ==
    [][(lastOp'.op = "start" /\ lastOp'.exc # "HandleClosedError") =>
           LET h == lastOp'.h
               a == lastOp'.arg
           IN  /\ fs'[h].path = IF a.path # None THEN a.path ELSE fs[h].path
               /\ fs'[h].flags = IF a.flags # <<>> THEN a.flags[1]
                                 ELSE fs[h].flags
               /\ fs'[h].on_event = IF a.on_event # None THEN a.on_event
                                    ELSE fs[h].on_event]_vars

\* C20: the path the native uv_fs_event_start receives is the effective
\* path: the argument if specified, else the stored path; it is the path
\* attribute of the handle after the call.
C20_NativePathIsEffectivePath ==
    [][(lastOp'.op = "start" /\ "uv_fs_event_start" \in lastOp'.ncalls) =>
           LET h == lastOp'.h
               a == lastOp'.arg
           IN  /\ lastOp'.native_path
                      = str_py2c(IF a.path # None THEN a.path ELSE fs[h].path)
               /\ lastOp'.native_path = str_py2c(fs'[h].path)]_vars

\* C21: when start() or stop() fails with a negative native code, UVError
\* is raised and the handle is exactly as it was before the call: active
\* sub-state, stored path, flags and on_event, registry membership.
C21_FailedStartStopChangesNothing ==
    [][(lastOp'.op \in {"start", "stop"} /\ lastOp'.exc = "UVError") =>
           /\ lastOp'.ret < 0
           /\ fs' = fs
           /\ uv_active' = uv_active
           /\ handles' = handles
           /\ attachments' = attachments
           /\ destroyed' = destroyed]_vars

\* C22: the attachment of a started watcher survives event dispatch: after
\* an event was delivered the handle is still attached (no delivery fails in
\* the registry), and the first close completion of a handle resolves the
\* handle and destroys it.
C22_AttachmentSurvivesEvents ==
    /\ lastOp.op = "uv_fs_event_cb" =>
           lastOp.exc # "NotAttached" /\ lastOp.h \in attachments
    /\ (lastOp.op = "uv_close_cb" /\ ~lastOp.cb_had_run) =>
           lastOp.exc = "none" /\ destroyed[lastOp.h]

\* C23: no lib.uv_* call is reached with a nulled uv_handle: once destroy
\* has set uv_handle to None, no Handle operation hands it to the native
\* library.
C23_NoNativeCallOnNulledHandle ==
    lastOp.op \in HandleOps => ~lastOp.nullref

\* C24: the handles set holds exactly the handles whose construction
\* completed and that are not destroyed; every member has destroyed False
\* and a non-null uv_handle; destroy never runs on a non-member, so its
\* set removal never fails and no handle is destroyed twice.
C24_HandlesRegistry ==
    /\ handles = {h \in Handles : born[h] = "ok" /\ ~destroyed[h]}
    /\ \A h \in handles : ~destroyed[h] /\ uv_handle[h] \notin {None, "unset"}
    /\ lastOp.exc # "KeyError"
    /\ \A h \in Handles : destroys[h] <= 1

\* one handle has been destroyed by its close completion and left the set
\* while another one is still a member
C24_Witness ==
    \E g, h \in Handles :
        /\ g \in handles
        /\ born[h] = "ok" /\ destroyed[h] /\ h \notin handles
        /\ lastOp.op = "uv_close_cb"

\* C25: after close_all_handles(), with the loop running its close
\* trampolines, eventually every handle the call met is destroyed and the
\* handles set is empty, whether the handles were live or already closing.
C25_CloseAllEventuallyEmpties ==
    close_all.called ~>
        (handles = {} /\ \A h \in close_all.targets : destroyed[h])

\* C26: reference() and dereference() on a live handle change only the
\* native keep-alive flag that `referenced` reports; destroyed, closed, the
\* on_closed callback, the attachment and the membership in `handles` stay;
\* on a destroyed handle both raise ClosedStructure and change nothing.
C26_ReferenceFrame ==
    [][lastOp'.op \in {"reference", "dereference"} =>
           LET h == lastOp'.h
           IN  /\ destroyed' = destroyed
               /\ uv_closing' = uv_closing
               /\ uv_active' = uv_active
               /\ uv_handle' = uv_handle
               /\ on_closed' = on_closed
               /\ attachments' = attachments
               /\ handles' = handles
               /\ close_queue' = close_queue
               /\ \A g \in Handles \ {h} : uv_ref'[g] = uv_ref[g]
               /\ destroyed[h] =>
                      /\ lastOp'.exc = "ClosedStructure"
                      /\ lastOp'.ncalls = {}
                      /\ uv_ref' = uv_ref
               /\ ~destroyed[h] =>
                      /\ lastOp'.exc = "none"
                      /\ uv_ref'[h] = (lastOp'.op = "reference")]_vars

\* dereference() has just cleared the flag of a live member handle
C26_Witness ==
    /\ lastOp.op = "dereference"
    /\ lastOp.exc = "none"
    /\ ~uv_ref[lastOp.h]
    /\ lastOp.h \in handles
    /\ lastOp.h \in attachments

\* what handle.closed and handle.active give in the current state
ClosedValue(h) == Handle_closed(State, h).ret
ActiveValue(h) == Handle_active(State, h).ret

\* C27: closed is monotonic: once it is True for a handle (from close()
\* through Closing and after destroy) it is True in every later state; and
\* active is False in every state after destroy.
C27_ClosedMonotonic ==
    [][\A h \in Handles :
           /\ ClosedValue(h) = "True" => ClosedValue(h)' = "True"
           /\ destroyed'[h] => ActiveValue(h)' = "False"]_vars

\* closed has just been read as True on a handle that its close completion
\* destroyed, and active is False there
C27_Witness ==
    \E h \in Handles :
        /\ destroyed[h]
        /\ born[h] = "ok"
        /\ lastOp.op = "closed" /\ lastOp.h = h /\ lastOp.ret = "True"
        /\ ActiveValue(h) = "False"

\* C28: set_mode on a closing or closed tty raises ClosedHandleError
\* without the native set-mode call; on an open tty a non-success code is
\* raised as UVError and success returns normally.
C28_SetModeChecksClosing ==
    [][lastOp'.op = "set_mode" =>
           LET h == lastOp'.h
           IN  /\ (destroyed[h] \/ uv_closing[h]) =>
                      /\ lastOp'.exc = "ClosedHandleError"
                      /\ lastOp'.ncalls = {}
                      /\ uv_tty_mode' = uv_tty_mode
               /\ (~destroyed[h] /\ ~uv_closing[h] /\ lastOp'.code # 0) =>
                      lastOp'.exc = "UVError"
               /\ (~destroyed[h] /\ ~uv_closing[h] /\ lastOp'.code = 0) =>
                      /\ lastOp'.exc = "none"
                      /\ lastOp'.ncalls = {"uv_tty_set_mode"}
                      /\ uv_tty_mode'[h] = lastOp'.arg]_vars

\* set_mode(RAW) was just refused on a closing tty
C28_Witness ==
    /\ lastOp.op = "set_mode"
    /\ lastOp.arg = "RAW"
    /\ lastOp.exc = "ClosedHandleError"
    /\ uv_closing[lastOp.h]
    /\ uv_tty_mode[lastOp.h] = "NORMAL"

\* C29: console_size on a closing or closed tty makes no native call and
\* does not raise: it returns ConsoleSize(0, 0); on an open tty it returns
\* the native (width, height), or raises UVError on a non-success code.
C29_ConsoleSizeOnClosing ==
    [][lastOp'.op = "console_size" =>
           LET h == lastOp'.h
           IN  /\ (destroyed[h] \/ uv_closing[h]) =>
                      /\ lastOp'.exc = "none"
                      /\ lastOp'.ncalls = {}
                      /\ lastOp'.ret = <<0, 0>>
               /\ (~destroyed[h] /\ ~uv_closing[h] /\ lastOp'.code # 0) =>
                      lastOp'.exc = "UVError"
               /\ (~destroyed[h] /\ ~uv_closing[h] /\ lastOp'.code = 0) =>
                      /\ lastOp'.exc = "none"
                      /\ lastOp'.ret = lastOp'.arg]_vars

====
